---- MODULE Spec2Model ----
(***************************************************************************)
(* StudySpark: the quiz lifecycle of the client.                           *)
(*                                                                         *)
(* Index owns quizQuestions and renders QuizGenerator while it is null     *)
(* and QuizDisplay otherwise.  QuizGenerator collects notes (textarea,     *)
(* PDF upload) and asks /api/generate-quiz for a question set.             *)
(* QuizDisplay is the quiz session: a cursor, the selected answers and     *)
(* the completion flag.                                                    *)
(*                                                                         *)
(* Strings are sequences of one-character strings.  JavaScript indices     *)
(* are 0-based, so question i of the source is questions[i + 1] here.      *)
(*                                                                         *)
(* QuizDisplay's handlers are modelled as the operations of the session:   *)
(* they can be invoked whenever the component is mounted.  QuizGenerator's *)
(* generateQuiz has no re-entrancy check of its own, its only protection   *)
(* is the button's disabled attribute, so the click is modelled with that  *)
(* attribute as its guard.                                                 *)
(***************************************************************************)
EXTENDS Integers, Sequences, FiniteSets, TLC

VARIABLES
    quizQuestions,    \* Index: QuizQuestion[] | null
    currentQuestion,  \* QuizDisplay: cursor (0-based)
    selectedAnswers,  \* QuizDisplay: Record<number, string>
    showResults,      \* QuizDisplay
    isCompleted,      \* QuizDisplay
    notes,            \* QuizGenerator: textarea content
    isGenerating,     \* QuizGenerator: the flag that disables Generate
    fetches,          \* generate-quiz calls in flight
    uploads,          \* PDF reads in progress: the notes each closure captured
    crashed,          \* a render threw: React removed the tree
    lastOp,           \* the operation that produced this state
    scQuestions,      \* scoring: the questions handed to the results view
    scAnswers,        \* scoring: the selectedAnswers handed to the results view
    scResult,         \* scoring: what the results view computed
    storedTopics,     \* localStorage["StudySpark-Topics"], parsed
    ptTopics,         \* ProgressTracker: topics
    ptCovered,        \* ProgressTracker: covered
    ptLoading,        \* ProgressTracker: loading
    ptFetches,        \* ProgressTracker: list-topics calls in flight
    tpOp,             \* the topic operation that produced this state
    assistantNotes,   \* StudySpark Assistant: notes
    summary,
    assistantQuiz,
    quizFeedback,
    isGeneratingSummary,
    isGeneratingQuiz,
    isGeneratingFeedback,
    feedbackCalls,    \* quiz-feedback calls in flight, with what they closed over
    toast,            \* the notification the last operation raised
    assistantCrashed, \* QuizFeedbackComponent threw while rendering
    storedNotes,      \* localStorage["studyspark-notes"]
    storedSummary,    \* localStorage["studyspark-summary"]
    rawText,          \* sanitizer: the gateway's text
    sanitized,        \* sanitizer: what is handed to JSON.parse
    reqRoute,         \* server: the route of the request
    reqField,         \* server: the required field of its body
    handlerPc,        \* server: where the handler is
    gatewayCalls,     \* server: calls of model.generateContent
    gatewayOutcome,   \* server: how the call ended
    responses,        \* server: what was sent on res
    efPc,             \* edge function: where the handler is
    efRequests,       \* edge function: requests served so far
    efQuestions,      \* edge function: what JSON.parse made of the generated text
    efQuizId,         \* edge function: quizData.id once the quiz row is inserted
    quizzesTable,     \* the ids of the rows of table quizzes
    questionsTable,   \* the quiz_id values of the rows of table questions
    efResponse        \* edge function: the Response it returned

vars == <<quizQuestions, currentQuestion, selectedAnswers, showResults,
          isCompleted, notes, isGenerating, fetches, uploads, crashed,
          lastOp>>

sessionVars == <<currentQuestion, selectedAnswers, showResults, isCompleted>>
generatorVars == <<notes, isGenerating, uploads>>

scoreVars == <<scQuestions, scAnswers, scResult>>

trackerVars == <<ptTopics, ptCovered, ptLoading, ptFetches>>

topicVars == <<storedTopics, trackerVars, tpOp>>

assistantVars ==
    <<assistantNotes, summary, assistantQuiz, quizFeedback, isGeneratingSummary,
      isGeneratingQuiz, isGeneratingFeedback, feedbackCalls, toast,
      assistantCrashed, storedNotes, storedSummary>>

sanitizerVars == <<rawText, sanitized>>

serverVars ==
    <<reqRoute, reqField, handlerPc, gatewayCalls, gatewayOutcome, responses>>

edgeVars ==
    <<efPc, efRequests, efQuestions, efQuizId, quizzesTable, questionsTable,
      efResponse>>

\* the server side
backendVars == <<sanitizerVars, serverVars, edgeVars>>

\* everything that is not part of the quiz lifecycle
otherVars == <<scoreVars, topicVars, assistantVars, backendVars>>

\* everything that is not part of the topic coverage state
nonTopicVars == <<vars, scoreVars, assistantVars, backendVars>>

\* everything the StudySpark Assistant neither holds nor writes
nonAssistantVars == <<vars, scoreVars, trackerVars, tpOp, backendVars>>

\* everything on the client
clientVars == <<vars, scoreVars, topicVars, assistantVars>>

allVars == <<vars, otherVars>>

----------------------------------------------------------------------------
(* Bounds *)

MaxQuestions == 2
MaxFetches == 2
MaxUploads == 1
MaxNotesLen == 4
MaxScoreQuestions == 3
MaxTopics == 2
MaxFeedbackCalls == 2
MaxTextLen == 6

----------------------------------------------------------------------------
(* Values *)

\* quizQuestions is null, or holds one question array
Null == <<>>
Some(quiz) == <<quiz>>

Keys == {"A", "B", "C", "D"}

Q1 == [topic |-> "t1", correct_answer |-> "A"]
Q2 == [topic |-> "t2", correct_answer |-> "B"]

QuizQuestion == {Q1, Q2}

\* the question arrays a response body can carry, the empty array included
QuizSets == UNION {[1..n -> QuizQuestion] : n \in 0..MaxQuestions}

\* how a generate-quiz fetch can settle: the fetch rejects, the status is
\* not ok, or the body is parsed and has a questions array or has none
Responses ==
    {[kind |-> k, questions |-> Null] : k \in {"networkError", "notOk", "ok"}}
    \cup {[kind |-> "ok", questions |-> Some(q)] : q \in QuizSets}

Whitespace == {" ", "\n"}

NotesInputs == {<<>>, <<" ">>, <<"a">>}
PdfTexts == {<<>>, <<"b">>}

----------------------------------------------------------------------------
(* String helpers *)

RECURSIVE TrimStart(_)
TrimStart(s) ==
    IF s = <<>> THEN <<>>
    ELSE IF Head(s) \in Whitespace THEN TrimStart(Tail(s)) ELSE s

RECURSIVE TrimEnd(_)
TrimEnd(s) ==
    IF s = <<>> THEN <<>>
    ELSE IF s[Len(s)] \in Whitespace THEN TrimEnd(SubSeq(s, 1, Len(s) - 1)) ELSE s

trim(s) == TrimEnd(TrimStart(s))

\* [notes.trim(), textContent.trim()].filter(Boolean).join("\n\n")
mergedNotes(n, text) ==
    IF trim(n) = <<>> THEN trim(text)
    ELSE IF trim(text) = <<>> THEN trim(n)
    ELSE trim(n) \o <<"\n", "\n">> \o trim(text)

----------------------------------------------------------------------------
(* QuizDisplay *)

EmptyAnswers == [i \in {} |-> "A"]

\* useState initial values
InitialSession ==
    [currentQuestion |-> 0, selectedAnswers |-> EmptyAnswers,
     showResults |-> FALSE, isCompleted |-> FALSE]

\* the in-progress view reads questions[currentQuestion].topic
RenderThrows(qq, cq, results) ==
    /\ qq # Null
    /\ ~results
    /\ ~(cq + 1 \in DOMAIN qq[1])

Mounted == quizQuestions # Null /\ ~crashed

\* the questions prop of QuizDisplay
questions == quizQuestions[1]

\* mutants: the bound of the cursor test is off by one, either way
HasNext_StopsEarly(cq, qs) == cq < Len(qs) - 2
HasNext_RunsPast(cq, qs) == cq < Len(qs)

\* currentQuestion < questions.length - 1
HasNext(cq, qs) == cq < Len(qs) - 1

\* currentQuestion > 0
HasPrev(cq) == cq > 0

\* mutant: the spread of the earlier answers is forgotten
WithAnswer_DropsOthers(prev, cq, answer) == [i \in {cq} |-> answer]

\* { ...prev, [currentQuestion]: answer }
WithAnswer(prev, cq, answer) ==
    [i \in DOMAIN prev \cup {cq} |-> IF i = cq THEN answer ELSE prev[i]]

selectAnswer(answer) ==
    /\ Mounted
    /\ IF isCompleted
         THEN UNCHANGED selectedAnswers
         ELSE selectedAnswers' = WithAnswer(selectedAnswers, currentQuestion, answer)
    /\ lastOp' = "selectAnswer"
    /\ UNCHANGED otherVars
    /\ UNCHANGED <<quizQuestions, currentQuestion, showResults, isCompleted,
                   fetches, crashed>>
    /\ UNCHANGED generatorVars

nextQuestion ==
    /\ Mounted
    /\ IF HasNext(currentQuestion, questions)
         THEN /\ currentQuestion' = currentQuestion + 1
              /\ UNCHANGED <<isCompleted, showResults>>
         ELSE /\ isCompleted' = TRUE
              /\ showResults' = TRUE
              /\ UNCHANGED currentQuestion
    /\ crashed' = RenderThrows(quizQuestions, currentQuestion', showResults')
    /\ lastOp' = "nextQuestion"
    /\ UNCHANGED otherVars
    /\ UNCHANGED <<quizQuestions, selectedAnswers, fetches>>
    /\ UNCHANGED generatorVars

prevQuestion ==
    /\ Mounted
    /\ IF HasPrev(currentQuestion)
         THEN currentQuestion' = currentQuestion - 1
         ELSE UNCHANGED currentQuestion
    /\ crashed' = RenderThrows(quizQuestions, currentQuestion', showResults)
    /\ lastOp' = "prevQuestion"
    /\ UNCHANGED otherVars
    /\ UNCHANGED <<quizQuestions, selectedAnswers, showResults, isCompleted,
                   fetches>>
    /\ UNCHANGED generatorVars

----------------------------------------------------------------------------
(* Index *)

\* A call in flight is [live, stale].  live: the QuizGenerator that issued
\* it is still mounted, so its setIsGenerating still has an effect.  stale
\* is bookkeeping the code does not have: the session the call was issued
\* for has been reset, or a newer call has been issued since.
Fetch(live, stale) == [live |-> live, stale |-> stale]

Superseded(fs) == [i \in DOMAIN fs |-> Fetch(fs[i].live, TRUE)]

\* the QuizGenerator that issued the calls is unmounted
Orphaned(fs) == [i \in DOMAIN fs |-> Fetch(FALSE, fs[i].stale)]

RemoveAt(s, i) == SubSeq(s, 1, i - 1) \o SubSeq(s, i + 1, Len(s))

\* mutant: the reset keeps the questions
handleQuizReset_Keeps(prev) == prev

\* setQuizQuestions(null)
handleQuizReset(prev) == Null

\* setQuizQuestions(quiz).  QuizDisplay is mounted with fresh state when
\* there was none, and keeps its state when it was already there.
handleQuizGenerated(quiz) ==
    /\ quizQuestions' = Some(quiz)
    /\ IF quizQuestions = Null
         THEN /\ currentQuestion' = InitialSession.currentQuestion
              /\ selectedAnswers' = InitialSession.selectedAnswers
              /\ showResults' = InitialSession.showResults
              /\ isCompleted' = InitialSession.isCompleted
         ELSE UNCHANGED sessionVars
    /\ crashed' = RenderThrows(quizQuestions', currentQuestion', showResults')

\* QuizDisplay.resetQuiz, then onReset: QuizDisplay is unmounted and a new
\* QuizGenerator is mounted in its place.
resetQuiz ==
    /\ Mounted
    /\ currentQuestion' = 0
    /\ selectedAnswers' = EmptyAnswers
    /\ showResults' = FALSE
    /\ isCompleted' = FALSE
    /\ quizQuestions' = handleQuizReset(quizQuestions)
    /\ fetches' = Superseded(fetches)
    /\ lastOp' = "resetQuiz"
    /\ UNCHANGED otherVars
    /\ UNCHANGED crashed
    /\ UNCHANGED generatorVars

----------------------------------------------------------------------------
(* QuizGenerator *)

GeneratorMounted == quizQuestions = Null /\ ~crashed

\* disabled={!notes.trim() || isGenerating}
GenerateDisabled(n, generating) == trim(n) = <<>> \/ generating

\* the textarea's onChange
setNotes(value) ==
    /\ GeneratorMounted
    /\ notes' = value
    /\ lastOp' = "setNotes"
    /\ UNCHANGED otherVars
    /\ UNCHANGED <<quizQuestions, isGenerating, fetches, uploads, crashed>>
    /\ UNCHANGED sessionVars

\* handleDrop / handleFileSelect: the drop zone is never disabled
handleFileUpload ==
    /\ GeneratorMounted
    /\ Len(uploads) < MaxUploads
    /\ Len(trim(notes)) + 3 <= MaxNotesLen
    /\ isGenerating' = TRUE
    /\ uploads' = Append(uploads, notes)
    /\ lastOp' = "handleFileUpload"
    /\ UNCHANGED otherVars
    /\ UNCHANGED <<quizQuestions, notes, fetches, crashed>>
    /\ UNCHANGED sessionVars

\* fileReader.onload ran to its end
fileReaderOnload(i, text) ==
    /\ GeneratorMounted
    /\ i \in DOMAIN uploads
    /\ notes' = mergedNotes(uploads[i], text)
    /\ isGenerating' = FALSE
    /\ uploads' = RemoveAt(uploads, i)
    /\ lastOp' = "fileReaderOnload"
    /\ UNCHANGED otherVars
    /\ UNCHANGED <<quizQuestions, fetches, crashed>>
    /\ UNCHANGED sessionVars

\* the read failed (no onerror handler) or pdfjs rejected inside the async
\* onload: nothing catches it
pdfExtractionFails(i) ==
    /\ GeneratorMounted
    /\ i \in DOMAIN uploads
    /\ uploads' = RemoveAt(uploads, i)
    /\ lastOp' = "pdfExtractionFails"
    /\ UNCHANGED otherVars
    /\ UNCHANGED <<quizQuestions, notes, isGenerating, fetches, crashed>>
    /\ UNCHANGED sessionVars

\* a click on Generate Quiz
generateQuiz ==
    /\ GeneratorMounted
    /\ ~GenerateDisabled(notes, isGenerating)
    /\ trim(notes) # <<>>
    /\ Len(fetches) < MaxFetches
    /\ isGenerating' = TRUE
    /\ fetches' = Append(Superseded(fetches), Fetch(TRUE, FALSE))
    /\ lastOp' = "generateQuiz"
    /\ UNCHANGED otherVars
    /\ UNCHANGED <<quizQuestions, notes, uploads, crashed>>
    /\ UNCHANGED sessionVars

\* response.ok, and data.questions && Array.isArray(data.questions)
IsQuestionArray(response) == response.kind = "ok" /\ response.questions # Null

\* a fetch settles with a question array: onQuizGenerated is Index's
\* handleQuizGenerated, whether or not the QuizGenerator that issued the
\* call is still mounted.  Index then shows QuizDisplay: a mounted
\* QuizGenerator is removed, its state is gone and its other calls stay in
\* flight.
quizFetchDelivers(i, response) ==
    /\ ~crashed
    /\ i \in DOMAIN fetches
    /\ IsQuestionArray(response)
    /\ handleQuizGenerated(response.questions[1])
    /\ notes' = <<>>
    /\ isGenerating' = FALSE
    /\ uploads' = <<>>
    /\ fetches' = Orphaned(RemoveAt(fetches, i))
    /\ lastOp' = "quizFetchDelivers"
    /\ UNCHANGED otherVars

\* a fetch fails: catch, then finally.  setIsGenerating(false) acts on the
\* QuizGenerator that issued the call, if it is still mounted.
quizFetchFails(i, response) ==
    /\ ~crashed
    /\ i \in DOMAIN fetches
    /\ ~IsQuestionArray(response)
    /\ isGenerating' = IF fetches[i].live THEN FALSE ELSE isGenerating
    /\ fetches' = RemoveAt(fetches, i)
    /\ lastOp' = "quizFetchFails"
    /\ UNCHANGED otherVars
    /\ UNCHANGED <<quizQuestions, notes, uploads, crashed>>
    /\ UNCHANGED sessionVars

\* a fetch settles after the tree was removed: no state is left to change
quizFetchAfterCrash(i) ==
    /\ crashed
    /\ i \in DOMAIN fetches
    /\ fetches' = RemoveAt(fetches, i)
    /\ lastOp' = "quizFetchAfterCrash"
    /\ UNCHANGED otherVars
    /\ UNCHANGED <<quizQuestions, crashed>>
    /\ UNCHANGED sessionVars
    /\ UNCHANGED generatorVars

----------------------------------------------------------------------------
(* QuizDisplay: the results view *)

Q3 == [topic |-> "t3", correct_answer |-> "C"]

\* the question lists and sparse answer maps the results view is applied
\* to; an answer may sit at an index past the end of the list
ScoreQuestions == {Q1, Q2, Q3}
ScoreQuestionLists ==
    UNION {[1..n -> ScoreQuestions] : n \in 0..MaxScoreQuestions}
ScoreAnswerValues == {"A", "B", "X"}
ScoreAnswerMaps ==
    UNION {[d -> ScoreAnswerValues] : d \in SUBSET (0..MaxScoreQuestions)}

undefined == "undefined"
NaN == "NaN"

\* the property names of selectedAnswers are the decimal strings of the
\* indices
parseInt(str) == CHOOSE n \in 0..(MaxScoreQuestions + 1) : ToString(n) = str

\* Object.entries(selectedAnswers): integer keys in ascending order
RECURSIVE entries(_)
entries(answers) ==
    IF DOMAIN answers = {} THEN <<>>
    ELSE LET k == CHOOSE i \in DOMAIN answers : \A j \in DOMAIN answers : i <= j
             rest == [i \in DOMAIN answers \ {k} |-> answers[i]]
         IN  <<<<ToString(k), answers[k]>>>> \o entries(rest)

\* questions[index]?.correct_answer
correctAnswerAt(qs, index) ==
    IF index + 1 \in DOMAIN qs THEN qs[index + 1].correct_answer ELSE undefined

\* mutant: every recorded answer counts
scoreStep_CountsAll(qs, score, entry) == score + 1

\* the reducer of calculateScore
scoreStep(qs, score, entry) ==
    IF correctAnswerAt(qs, parseInt(entry[1])) = entry[2] THEN score + 1 ELSE score

RECURSIVE reduce(_, _, _)
reduce(qs, es, score) ==
    IF es = <<>> THEN score
    ELSE reduce(qs, Tail(es), scoreStep(qs, score, Head(es)))

calculateScore(qs, answers) == reduce(qs, entries(answers), 0)

\* mutant: the quotient is truncated
round_Truncates(a, b) == a \div b

\* Math.round(a / b) for a >= 0, b > 0: floor(a / b + 1/2)
round(a, b) == (2 * a + b) \div (2 * b)

\* Math.round((score / questions.length) * 100)
percentageOf(score, total) == IF total = 0 THEN NaN ELSE round(100 * score, total)

\* selectedAnswers[index] === question.correct_answer
isCorrectAt(qs, answers, index) ==
    LET userAnswer == IF index \in DOMAIN answers THEN answers[index] ELSE undefined
    IN  userAnswer = qs[index + 1].correct_answer

NoResult == [shown |-> FALSE, score |-> 0, percentage |-> NaN, isCorrect |-> <<>>]

\* the showResults branch of the render
renderResults ==
    /\ ~scResult.shown
    /\ LET score == calculateScore(scQuestions, scAnswers)
       IN  scResult' =
             [shown |-> TRUE,
              score |-> score,
              percentage |-> percentageOf(score, Len(scQuestions)),
              isCorrect |-> [i \in 1..Len(scQuestions) |->
                               isCorrectAt(scQuestions, scAnswers, i - 1)]]
    /\ UNCHANGED <<scQuestions, scAnswers>>
    /\ UNCHANGED <<vars, topicVars, assistantVars, backendVars>>

----------------------------------------------------------------------------
(* Topic coverage: localStorage, updateCoveredTopics and ProgressTracker *)

Topics == {Q1.topic, Q2.topic}

\* the topic arrays a quiz or a list-topics response can carry
TopicLists == UNION {[1..n -> Topics] : n \in 0..MaxTopics}

NoCovered == [t \in {} |-> TRUE]

\* { topics: [], covered: {} }
EmptyCoverage == [topics |-> <<>>, covered |-> NoCovered]

Coverage(topics, covered) == [topics |-> topics, covered |-> covered]

\* studySpark.topics.includes(topic)
includes(list, topic) == \E i \in DOMAIN list : list[i] = topic

\* mutant: the topic is pushed without the includes test
pushIfMissing_Always(list, topic) == Append(list, topic)

\* if (!studySpark.topics.includes(topic)) studySpark.topics.push(topic)
pushIfMissing(list, topic) ==
    IF includes(list, topic) THEN list ELSE Append(list, topic)

\* studySpark.covered[topic] = true
markCovered(covered, topic) ==
    [t \in DOMAIN covered \cup {topic} |-> IF t = topic THEN TRUE ELSE covered[t]]

\* topics.forEach(...)
RECURSIVE forEachTopic(_, _)
forEachTopic(studySpark, topics) ==
    IF topics = <<>> THEN studySpark
    ELSE forEachTopic(
           Coverage(pushIfMissing(studySpark.topics, Head(topics)),
                    markCovered(studySpark.covered, Head(topics))),
           Tail(topics))

\* the stored item parsed, or the empty state when there is none.  The item
\* is only ever written by this program, as JSON.stringify of a value
\* {topics: string[], covered: Record<string, boolean>}, which JSON.parse
\* gives back unchanged.
parsedOrEmpty(stored) == IF stored = Null THEN EmptyCoverage ELSE stored[1]

\* what updateCoveredTopics writes back: localStorage.setItem(...)
mergedTopics(stored, topics) == Some(forEachTopic(parsedOrEmpty(stored), topics))

\* QuizGenerator.updateCoveredTopics
updateCoveredTopics(topics) ==
    /\ storedTopics' = mergedTopics(storedTopics, topics)
    /\ tpOp' = "updateCoveredTopics"
    /\ UNCHANGED nonTopicVars
    /\ UNCHANGED trackerVars

\* ProgressTracker's save effect, run after a render that changed topics or
\* covered
saveEffect(stored, topics, covered) ==
    IF Len(topics) > 0 THEN Some(Coverage(topics, covered)) ELSE stored

\* ProgressTracker is mounted anew (the page is reloaded): useState initial
\* values, then the load effect and the save effect of the render it causes
mountTracker ==
    /\ ptTopics' = parsedOrEmpty(storedTopics).topics
    /\ ptCovered' = parsedOrEmpty(storedTopics).covered
    /\ ptLoading' = FALSE
    /\ ptFetches' = 0
    /\ storedTopics' = saveEffect(storedTopics, ptTopics', ptCovered')
    /\ tpOp' = "mountTracker"
    /\ UNCHANGED nonTopicVars

\* a click on Load Topics (disabled while loading)
handleFetchTopics(pdfText) ==
    /\ ~ptLoading
    /\ IF trim(pdfText) = <<>>
         THEN UNCHANGED <<ptLoading, ptFetches>>
         ELSE ptLoading' = TRUE /\ ptFetches' = ptFetches + 1
    /\ tpOp' = "handleFetchTopics"
    /\ UNCHANGED nonTopicVars
    /\ UNCHANGED <<storedTopics, ptTopics, ptCovered>>

\* mutant: covered is not reset for the new topics
topicsFetchDelivers_KeepsCovered(topics) ==
    /\ ptFetches > 0
    /\ ptTopics' = topics
    /\ ptCovered' = ptCovered
    /\ ptLoading' = FALSE
    /\ ptFetches' = ptFetches - 1
    /\ storedTopics' = saveEffect(storedTopics, ptTopics', ptCovered')
    /\ tpOp' = "topicsFetchDelivers"
    /\ UNCHANGED nonTopicVars

\* the list-topics call answers with a topics array
topicsFetchDelivers(topics) ==
    /\ ptFetches > 0
    /\ ptTopics' = topics
    /\ ptCovered' = NoCovered
    /\ ptLoading' = FALSE
    /\ ptFetches' = ptFetches - 1
    /\ storedTopics' = saveEffect(storedTopics, ptTopics', ptCovered')
    /\ tpOp' = "topicsFetchDelivers"
    /\ UNCHANGED nonTopicVars

\* the call fails, answers with a status that is not ok, or with no topics
\* array
topicsFetchFails ==
    /\ ptFetches > 0
    /\ ptLoading' = FALSE
    /\ ptFetches' = ptFetches - 1
    /\ tpOp' = "topicsFetchFails"
    /\ UNCHANGED nonTopicVars
    /\ UNCHANGED <<storedTopics, ptTopics, ptCovered>>

\* { ...prev, [topic]: !prev[topic] }
toggled(prev, topic) ==
    [t \in DOMAIN prev \cup {topic} |->
       IF t = topic THEN ~(topic \in DOMAIN prev /\ prev[topic]) ELSE prev[t]]

\* Object.values(covered).filter(Boolean).length
coveredCount(covered) == Cardinality({t \in DOMAIN covered : covered[t]})

\* topics.length ? Math.round((coveredCount / topics.length) * 100) : 0
progress(topics, covered) ==
    IF Len(topics) = 0 THEN 0 ELSE round(100 * coveredCount(covered), Len(topics))

\* a click on a listed topic
toggleCovered(topic) ==
    /\ includes(ptTopics, topic)
    /\ ptCovered' = toggled(ptCovered, topic)
    /\ storedTopics' = saveEffect(storedTopics, ptTopics, ptCovered')
    /\ tpOp' = "toggleCovered"
    /\ UNCHANGED nonTopicVars
    /\ UNCHANGED <<ptTopics, ptLoading, ptFetches>>

----------------------------------------------------------------------------
(* StudySpark Assistant: the QuizGenerator with summary and feedback.  Its
   handlers are modelled for a parent that keeps it mounted and holds its
   ref, which is what forwardRef / useImperativeHandle offer. *)

Summaries == {<<>>, <<"s">>}

AssistantQuizSets == {<<Q1>>, <<Q1, Q2>>}

\* Record<number, string>, keyed by question index
UserAnswers == {[index \in {} |-> "A"], [index \in {0} |-> "A"]}

NoToast == [title |-> "", variant |-> "none"]
Toast(title) == [title |-> title, variant |-> "default"]
Destructive(title) == [title |-> title, variant |-> "destructive"]

\* what res.json() can resolve to for /api/summary: { summary } with status
\* 200, { error } with status 400 or 500
SummaryBodies ==
    {[status |-> 200, summary |-> Some(t)] : t \in Summaries \ {<<>>}}
    \cup {[status |-> st, summary |-> Null] : st \in {400, 500}}

\* for /api/generate-quiz: { questions } with status 200, { error } with
\* status 400 or 500
QuizBodies ==
    {[status |-> 200, questions |-> Some(q)] : q \in AssistantQuizSets}
    \cup {[status |-> st, questions |-> Null] : st \in {400, 500}}

\* the score object the gateway writes: nothing ties it to the questions
GatewayScores ==
    {[correct |-> c, total |-> t, percentage |-> 100 * c] :
       c \in 0..1, t \in 1..Cardinality(QuizQuestion)}

\* for /api/quiz-feedback: the gateway's JSON passed through with status 200
\* (with a score, or without one), { error } with status 400 or 500
FeedbackBodies ==
    {[status |-> 200, score |-> Some(sc)] : sc \in GatewayScores}
    \cup {[status |-> st, score |-> Null] : st \in {200, 400, 500}}

\* data.summary || ""
summaryOr(data) == IF data.summary = Null THEN <<>> ELSE data.summary[1]

\* quiz.map((q) => q.topic)
RECURSIVE topicsOf(_)
topicsOf(qs) == IF qs = <<>> THEN <<>> ELSE <<Head(qs).topic>> \o topicsOf(Tail(qs))

\* QuizFeedbackComponent reads score.percentage of whatever was stored
FeedbackRenderThrows(feedback, generating) ==
    feedback # Null /\ ~generating /\ feedback[1].score = Null

\* the save effect of notes: localStorage.setItem("studyspark-notes", notes)
savedNotes(n) == Some(n)

\* the save effect of summary: if (summary) localStorage.setItem(...)
savedSummary(stored, sm) == IF sm # <<>> THEN Some(sm) ELSE stored

\* the load effect: if (saved) set(saved)
restored(stored) == IF stored # Null /\ stored[1] # <<>> THEN stored[1] ELSE <<>>

\* the page is reloaded: the component is mounted anew, the load effect
\* restores notes and summary, and the save effects of that render run
reloadAssistant ==
    /\ assistantNotes' = restored(storedNotes)
    /\ summary' = restored(storedSummary)
    /\ storedNotes' = savedNotes(assistantNotes')
    /\ storedSummary' = savedSummary(storedSummary, summary')
    /\ assistantQuiz' = Null
    /\ quizFeedback' = Null
    /\ isGeneratingSummary' = FALSE
    /\ isGeneratingQuiz' = FALSE
    /\ isGeneratingFeedback' = FALSE
    /\ feedbackCalls' = <<>>
    /\ toast' = NoToast
    /\ assistantCrashed' = FALSE
    /\ UNCHANGED <<storedTopics, nonAssistantVars>>

\* the textarea of NotesUploader
assistantSetNotes(text) ==
    /\ ~assistantCrashed
    /\ assistantNotes' = text
    /\ storedNotes' = savedNotes(assistantNotes')
    /\ UNCHANGED storedSummary
    /\ toast' = NoToast
    /\ UNCHANGED <<summary, assistantQuiz, quizFeedback, isGeneratingSummary,
                   isGeneratingQuiz, isGeneratingFeedback, feedbackCalls,
                   assistantCrashed>>
    /\ UNCHANGED <<storedTopics, nonAssistantVars>>

\* a click on Generate Summary
generateSummary ==
    /\ ~assistantCrashed
    /\ UNCHANGED <<storedNotes, storedSummary>>
    /\ ~(trim(assistantNotes) = <<>> \/ isGeneratingSummary)
    /\ isGeneratingSummary' = TRUE
    /\ toast' = NoToast
    /\ UNCHANGED <<assistantNotes, summary, assistantQuiz, quizFeedback, isGeneratingQuiz,
                   isGeneratingFeedback, feedbackCalls, assistantCrashed>>
    /\ UNCHANGED <<storedTopics, nonAssistantVars>>

\* the summary call resolves and its body parses
summaryResolves(data) ==
    /\ ~assistantCrashed
    /\ isGeneratingSummary
    /\ summary' = summaryOr(data)
    /\ storedSummary' = savedSummary(storedSummary, summary')
    /\ UNCHANGED storedNotes
    /\ toast' = Toast("Summary generated!")
    /\ isGeneratingSummary' = FALSE
    /\ UNCHANGED <<assistantNotes, assistantQuiz, quizFeedback, isGeneratingQuiz,
                   isGeneratingFeedback, feedbackCalls, assistantCrashed>>
    /\ UNCHANGED <<storedTopics, nonAssistantVars>>

\* the summary call rejects, or its body is not JSON
summaryRejects ==
    /\ ~assistantCrashed
    /\ UNCHANGED <<storedNotes, storedSummary>>
    /\ isGeneratingSummary
    /\ toast' = Destructive("Failed to generate summary")
    /\ isGeneratingSummary' = FALSE
    /\ UNCHANGED <<assistantNotes, summary, assistantQuiz, quizFeedback, isGeneratingQuiz,
                   isGeneratingFeedback, feedbackCalls, assistantCrashed>>
    /\ UNCHANGED <<storedTopics, nonAssistantVars>>

\* a click on Take Quiz
assistantGenerateQuiz ==
    /\ ~assistantCrashed
    /\ UNCHANGED <<storedNotes, storedSummary>>
    /\ ~((trim(summary) = <<>> /\ trim(assistantNotes) = <<>>) \/ isGeneratingQuiz)
    /\ isGeneratingQuiz' = TRUE
    /\ quizFeedback' = Null
    /\ toast' = NoToast
    /\ UNCHANGED <<assistantNotes, summary, assistantQuiz, isGeneratingSummary,
                   isGeneratingFeedback, feedbackCalls, assistantCrashed>>
    /\ UNCHANGED <<storedTopics, nonAssistantVars>>

\* the generate-quiz call resolves and its body parses
assistantQuizResolves(data) ==
    /\ ~assistantCrashed
    /\ UNCHANGED <<storedNotes, storedSummary>>
    /\ isGeneratingQuiz
    /\ IF data.questions # Null
         THEN /\ assistantQuiz' = data.questions
              /\ toast' = Toast("Quiz Generated")
         ELSE /\ toast' = NoToast
              /\ UNCHANGED assistantQuiz
    /\ isGeneratingQuiz' = FALSE
    /\ UNCHANGED <<assistantNotes, summary, quizFeedback, isGeneratingSummary,
                   isGeneratingFeedback, feedbackCalls, assistantCrashed>>
    /\ UNCHANGED <<storedTopics, nonAssistantVars>>

\* the generate-quiz call rejects, or its body is not JSON
assistantQuizRejects ==
    /\ ~assistantCrashed
    /\ UNCHANGED <<storedNotes, storedSummary>>
    /\ isGeneratingQuiz
    /\ toast' = Destructive("Failed to generate quiz")
    /\ isGeneratingQuiz' = FALSE
    /\ UNCHANGED <<assistantNotes, summary, assistantQuiz, quizFeedback,
                   isGeneratingSummary, isGeneratingFeedback, feedbackCalls,
                   assistantCrashed>>
    /\ UNCHANGED <<storedTopics, nonAssistantVars>>

\* the parent calls ref.submitQuizFeedback(userAnswers)
submitQuizFeedback(userAnswers) ==
    /\ ~assistantCrashed
    /\ UNCHANGED <<storedNotes, storedSummary>>
    /\ IF assistantQuiz = Null
         THEN /\ toast' = Destructive("No quiz to submit")
              /\ UNCHANGED <<isGeneratingFeedback, feedbackCalls>>
         ELSE /\ Len(feedbackCalls) < MaxFeedbackCalls
              /\ isGeneratingFeedback' = TRUE
              /\ feedbackCalls' =
                   Append(feedbackCalls, [quiz |-> assistantQuiz[1], userAnswers |-> userAnswers])
              /\ toast' = NoToast
    /\ UNCHANGED <<assistantNotes, summary, assistantQuiz, quizFeedback,
                   isGeneratingSummary, isGeneratingQuiz, assistantCrashed>>
    /\ UNCHANGED <<storedTopics, nonAssistantVars>>

\* the quiz-feedback call resolves and its body parses
feedbackResolves(i, data) ==
    /\ ~assistantCrashed
    /\ UNCHANGED <<storedNotes, storedSummary>>
    /\ i \in DOMAIN feedbackCalls
    /\ quizFeedback' = Some(data)
    /\ storedTopics' = mergedTopics(storedTopics, topicsOf(feedbackCalls[i].quiz))
    /\ toast' = Toast("Feedback Ready! Topics updated.")
    /\ isGeneratingFeedback' = FALSE
    /\ feedbackCalls' = RemoveAt(feedbackCalls, i)
    /\ assistantCrashed' = FeedbackRenderThrows(quizFeedback', isGeneratingFeedback')
    /\ UNCHANGED <<assistantNotes, summary, assistantQuiz, isGeneratingSummary,
                   isGeneratingQuiz>>
    /\ UNCHANGED nonAssistantVars

\* the quiz-feedback call rejects, or its body is not JSON
feedbackRejects(i) ==
    /\ ~assistantCrashed
    /\ UNCHANGED <<storedNotes, storedSummary>>
    /\ i \in DOMAIN feedbackCalls
    /\ toast' = Destructive("Failed to get feedback")
    /\ isGeneratingFeedback' = FALSE
    /\ feedbackCalls' = RemoveAt(feedbackCalls, i)
    /\ UNCHANGED <<assistantNotes, summary, assistantQuiz, quizFeedback,
                   isGeneratingSummary, isGeneratingQuiz, assistantCrashed>>
    /\ UNCHANGED <<storedTopics, nonAssistantVars>>

\* a quiz-feedback call resolves after the render error took the page down:
\* the state setters and the toast reach nothing, localStorage is still
\* written
feedbackResolvesAfterCrash(i) ==
    /\ assistantCrashed
    /\ UNCHANGED <<storedNotes, storedSummary>>
    /\ i \in DOMAIN feedbackCalls
    /\ storedTopics' = mergedTopics(storedTopics, topicsOf(feedbackCalls[i].quiz))
    /\ feedbackCalls' = RemoveAt(feedbackCalls, i)
    /\ toast' = NoToast
    /\ UNCHANGED <<assistantNotes, summary, assistantQuiz, quizFeedback,
                   isGeneratingSummary, isGeneratingQuiz, isGeneratingFeedback,
                   assistantCrashed>>
    /\ UNCHANGED nonAssistantVars

\* a quiz-feedback call rejects after the render error
feedbackRejectsAfterCrash(i) ==
    /\ assistantCrashed
    /\ UNCHANGED <<storedNotes, storedSummary>>
    /\ i \in DOMAIN feedbackCalls
    /\ feedbackCalls' = RemoveAt(feedbackCalls, i)
    /\ toast' = NoToast
    /\ UNCHANGED <<assistantNotes, summary, assistantQuiz, quizFeedback,
                   isGeneratingSummary, isGeneratingQuiz, isGeneratingFeedback,
                   assistantCrashed>>
    /\ UNCHANGED <<storedTopics, nonAssistantVars>>

----------------------------------------------------------------------------
(* The response sanitizer of the Express routes.  A text is a sequence of
   lexemes: the triple-backtick fence, the tag json, a line break, a JSON
   document, any other text. *)

\* the lexeme of three backticks
Fence == "fence"

Lexemes == {Fence, "json", "\n", "{}", "x"}

RawTexts == UNION {[1..n -> Lexemes] : n \in 0..MaxTextLen}

\* jsonText.startsWith(fence)
startsWith(text, lexeme) == text # <<>> /\ Head(text) = lexeme

\* .replace(/^fence json\s*/, "")
stripOpening(text) ==
    IF Len(text) >= 2 /\ text[1] = Fence /\ text[2] = "json"
      THEN TrimStart(SubSeq(text, 3, Len(text)))
      ELSE text

\* .replace(/fence$/, "")
stripClosing(text) ==
    IF text # <<>> /\ text[Len(text)] = Fence
      THEN SubSeq(text, 1, Len(text) - 1)
      ELSE text

\* response.text().trim(), then the fence stripping
sanitize(raw) ==
    LET jsonText == trim(raw)
    IN  IF startsWith(jsonText, Fence)
          THEN trim(stripClosing(stripOpening(jsonText)))
          ELSE jsonText

applySanitize ==
    /\ sanitized = Null
    /\ sanitized' = Some(sanitize(rawText))
    /\ UNCHANGED rawText
    /\ UNCHANGED <<clientVars, serverVars, edgeVars>>

SanitizerIdle ==
    /\ rawText = <<>>
    /\ sanitized = Null

----------------------------------------------------------------------------
(* The Express routes: one request, from its arrival to the response *)

Routes == {"generate-quiz", "summary", "quiz-feedback", "list-topics", "chatbot"}

\* the routes that hand the gateway's text to JSON.parse
JsonRoutes == {"generate-quiz", "quiz-feedback", "list-topics"}

\* a field of req.body: absent, a value that is no string, or a string
Undefined == [type |-> "undefined", text |-> <<>>]
NotAString == [type |-> "object", text |-> <<>>]
Str(t) == [type |-> "string", text |-> t]

FieldValues == {Undefined, NotAString} \cup {Str(t) : t \in NotesInputs}

\* !value is false
truthy(v) == v.type = "object" \/ (v.type = "string" /\ v.text # <<>>)

\* mutant: the chatbot route does not look at its message
Invalid_ChatbotUnchecked(route, v) ==
    CASE route \in {"generate-quiz", "summary", "list-topics"} ->
           ~truthy(v) \/ v.type # "string" \/ trim(v.text) = <<>>
      [] route = "chatbot" -> FALSE
      [] route = "quiz-feedback" -> ~truthy(v)

\* the test that sends 400
Invalid(route, v) ==
    CASE route \in {"generate-quiz", "summary", "list-topics"} ->
           ~truthy(v) \/ v.type # "string" \/ trim(v.text) = <<>>
      [] route = "chatbot" -> ~truthy(v) \/ v.type # "string"
      [] route = "quiz-feedback" -> ~truthy(v)

\* res.status(status).json(...): an { error } body, or the data
ErrorResponse(status, message) == [status |-> status, error |-> Some(message), data |-> Null]
DataResponse(data) == [status |-> 200, error |-> Null, data |-> Some(data)]

validationError(route) ==
    CASE route = "generate-quiz" -> "Notes content is required."
      [] route = "summary" -> "Text content is required for summary."
      [] route = "quiz-feedback" -> "Questions and answers required"
      [] route = "list-topics" -> "Text content is required to extract topics."
      [] route = "chatbot" -> "Message is required."

\* the outer catch
catchError(route) ==
    CASE route = "generate-quiz" -> "Internal server error."
      [] route = "summary" -> "Failed to generate summary."
      [] route = "quiz-feedback" -> "Failed to get feedback"
      [] route = "list-topics" -> "Internal server error."
      [] route = "chatbot" -> "Failed to get chatbot response."

\* the catch JSON.parse throws into
parseError(route) ==
    CASE route = "generate-quiz" -> "Failed to parse the generated quiz."
      [] route = "list-topics" -> "Failed to extract topics."
      [] route = "quiz-feedback" -> catchError(route)

\* the JSON documents a text can hold: a question set as the prompt asks
\* for, a question whose correct_answer is no key of its options, an object
\* without the fields
JsonDocs == {"{questions}", "{questions:badkey}", "{}"}

\* JSON.parse does not throw
parses(text) == Len(text) = 1 /\ text[1] \in JsonDocs

\* what model.generateContent can return
GatewayTexts ==
    {<<d>> : d \in JsonDocs}
    \cup {<<Fence, "json", "\n", d, "\n", Fence>> : d \in JsonDocs}
    \cup {<<Fence, "\n", "{questions}", "\n", Fence>>, <<"\n", "{}", "\n">>, <<"x">>, <<>>}

\* mutant: the text is passed on when it does not parse
parseFailed_PassesText(route, jsonText) == DataResponse(jsonText)

parseFailed(route, jsonText) == ErrorResponse(500, parseError(route))

\* the handler after the gateway returned its text
onText(route, text) ==
    IF route \in JsonRoutes
      THEN LET jsonText == sanitize(text)
           IN  IF parses(jsonText)
                 THEN DataResponse(jsonText)
                 ELSE parseFailed(route, jsonText)
      ELSE DataResponse(trim(text))

\* the handler up to its first await
validateRequest ==
    /\ handlerPc = "received"
    /\ IF Invalid(reqRoute, reqField)
         THEN /\ responses' = Append(responses, ErrorResponse(400, validationError(reqRoute)))
              /\ handlerPc' = "responded"
              /\ UNCHANGED gatewayCalls
         ELSE /\ gatewayCalls' = gatewayCalls + 1
              /\ handlerPc' = "awaitingGateway"
              /\ UNCHANGED responses
    /\ UNCHANGED <<reqRoute, reqField, gatewayOutcome>>
    /\ UNCHANGED <<clientVars, sanitizerVars, edgeVars>>

\* model.generateContent resolves
gatewayReturns(text) ==
    /\ handlerPc = "awaitingGateway"
    /\ gatewayOutcome' = Some([threw |-> FALSE, text |-> text])
    /\ responses' = Append(responses, onText(reqRoute, text))
    /\ handlerPc' = "responded"
    /\ UNCHANGED <<reqRoute, reqField, gatewayCalls>>
    /\ UNCHANGED <<clientVars, sanitizerVars, edgeVars>>

\* model.generateContent rejects
gatewayThrows ==
    /\ handlerPc = "awaitingGateway"
    /\ gatewayOutcome' = Some([threw |-> TRUE, text |-> <<>>])
    /\ responses' = Append(responses, ErrorResponse(500, catchError(reqRoute)))
    /\ handlerPc' = "responded"
    /\ UNCHANGED <<reqRoute, reqField, gatewayCalls>>
    /\ UNCHANGED <<clientVars, sanitizerVars, edgeVars>>

ServerIdle ==
    /\ reqRoute = "chatbot"
    /\ reqField = Undefined
    /\ handlerPc = "idle"
    /\ gatewayCalls = 0
    /\ gatewayOutcome = Null
    /\ responses = <<>>

----------------------------------------------------------------------------
(* The generate-quiz edge function: requests served one after another, and
   the two tables it writes *)

MaxRequests == 3

\* what JSON.parse makes of the generated text: it throws, a value that is
\* no array, an empty array, an array of questions as the prompt asks for,
\* an array whose elements have no options
Generated == {"unparsable", "notArray", "empty", "questions", "noOptions"}

\* the handler up to the await of fetch: notes.trim throws on a value that
\* is no string, and the outer catch answers
serve(v) ==
    /\ efPc \in {"idle", "responded"}
    /\ efRequests < MaxRequests
    /\ efRequests' = efRequests + 1
    /\ efQuestions' = "none"
    /\ efQuizId' = Null
    /\ IF ~truthy(v) \/ (v.type = "string" /\ trim(v.text) = <<>>)
         THEN /\ efResponse' = Some(ErrorResponse(400, "Notes content is required"))
              /\ efPc' = "responded"
         ELSE IF v.type # "string"
         THEN /\ efResponse' = Some(ErrorResponse(500, "notes.trim is not a function"))
              /\ efPc' = "responded"
         ELSE /\ efResponse' = Null
              /\ efPc' = "awaitingOpenAI"
    /\ UNCHANGED <<quizzesTable, questionsTable>>
    /\ UNCHANGED <<clientVars, sanitizerVars, serverVars>>

\* fetch settles: it rejects, answers with an error status, or answers with
\* a text; the handler runs up to the await of the insert into quizzes
openAISettles(outcome, generated) ==
    /\ efPc = "awaitingOpenAI"
    /\ CASE outcome = "rejected" ->
              /\ efResponse' = Some(ErrorResponse(500, "fetch failed"))
              /\ efPc' = "responded"
              /\ UNCHANGED efQuestions
         [] outcome = "notOk" ->
              /\ efResponse' = Some(ErrorResponse(500, "Failed to generate quiz"))
              /\ efPc' = "responded"
              /\ UNCHANGED efQuestions
         [] outcome = "ok" ->
              /\ efQuestions' = generated
              /\ IF generated \in {"unparsable", "notArray", "empty"}
                   THEN /\ efResponse' = Some(ErrorResponse(500, "Invalid quiz format generated"))
                        /\ efPc' = "responded"
                   ELSE /\ efPc' = "insertingQuiz"
                        /\ UNCHANGED efResponse
    /\ UNCHANGED <<efRequests, efQuizId, quizzesTable, questionsTable>>
    /\ UNCHANGED <<clientVars, sanitizerVars, serverVars>>

\* the insert into quizzes settles; questions.map then reads q.options.A and
\* throws when q.options is undefined; the handler runs up to the await of
\* the insert into questions
quizInsertSettles(failed) ==
    /\ efPc = "insertingQuiz"
    /\ IF failed
         THEN /\ efResponse' = Some(ErrorResponse(500, "Failed to save quiz"))
              /\ efPc' = "responded"
              /\ UNCHANGED <<efQuizId, quizzesTable>>
         ELSE LET id == Cardinality(quizzesTable) + 1
              IN  /\ quizzesTable' = quizzesTable \cup {id}
                  /\ efQuizId' = Some(id)
                  /\ IF efQuestions = "noOptions"
                       THEN /\ efResponse' = Some(ErrorResponse(500, "Cannot read properties of undefined"))
                            /\ efPc' = "responded"
                       ELSE /\ efPc' = "insertingQuestions"
                            /\ UNCHANGED efResponse
    /\ UNCHANGED <<efRequests, efQuestions, questionsTable>>
    /\ UNCHANGED <<clientVars, sanitizerVars, serverVars>>

\* the insert into questions settles
questionsInsertSettles(failed) ==
    /\ efPc = "insertingQuestions"
    /\ IF failed
         THEN /\ efResponse' = Some(ErrorResponse(500, "Failed to save questions"))
              /\ UNCHANGED questionsTable
         ELSE /\ questionsTable' = questionsTable \cup {efQuizId[1]}
              /\ efResponse' = Some(DataResponse(<<"questions", "quizId">>))
    /\ efPc' = "responded"
    /\ UNCHANGED <<efRequests, efQuestions, efQuizId, quizzesTable>>
    /\ UNCHANGED <<clientVars, sanitizerVars, serverVars>>

EdgeIdle ==
    /\ efPc = "idle"
    /\ efRequests = 0
    /\ efQuestions = "none"
    /\ efQuizId = Null
    /\ quizzesTable = {}
    /\ questionsTable = {}
    /\ efResponse = Null

----------------------------------------------------------------------------

LifecycleInit ==
    /\ quizQuestions = Null
    /\ currentQuestion = InitialSession.currentQuestion
    /\ selectedAnswers = InitialSession.selectedAnswers
    /\ showResults = InitialSession.showResults
    /\ isCompleted = InitialSession.isCompleted
    /\ notes = <<>>
    /\ isGenerating = FALSE
    /\ fetches = <<>>
    /\ uploads = <<>>
    /\ crashed = FALSE
    /\ lastOp = "init"

ScoreIdle ==
    /\ scQuestions = <<>>
    /\ scAnswers = EmptyAnswers
    /\ scResult = NoResult

TopicsInit ==
    /\ storedTopics = Null
    /\ ptTopics = <<>>
    /\ ptCovered = NoCovered
    /\ ptLoading = FALSE
    /\ ptFetches = 0
    /\ tpOp = "init"

AssistantInit ==
    /\ assistantNotes = <<>>
    /\ summary = <<>>
    /\ assistantQuiz = Null
    /\ quizFeedback = Null
    /\ isGeneratingSummary = FALSE
    /\ isGeneratingQuiz = FALSE
    /\ isGeneratingFeedback = FALSE
    /\ feedbackCalls = <<>>
    /\ toast = NoToast
    /\ assistantCrashed = FALSE
    /\ storedNotes = savedNotes(assistantNotes)
    /\ storedSummary = Null

BackendIdle == SanitizerIdle /\ ServerIdle /\ EdgeIdle

Init == LifecycleInit /\ ScoreIdle /\ TopicsInit /\ AssistantInit /\ BackendIdle

Next ==
    \/ \E answer \in Keys : selectAnswer(answer)
    \/ nextQuestion
    \/ prevQuestion
    \/ resetQuiz
    \/ \E value \in NotesInputs : setNotes(value)
    \/ handleFileUpload
    \/ \E i \in 1..MaxUploads, text \in PdfTexts : fileReaderOnload(i, text)
    \/ \E i \in 1..MaxUploads : pdfExtractionFails(i)
    \/ generateQuiz
    \/ \E i \in 1..MaxFetches, response \in Responses : quizFetchDelivers(i, response)
    \/ \E i \in 1..MaxFetches, response \in Responses : quizFetchFails(i, response)
    \/ \E i \in 1..MaxFetches : quizFetchAfterCrash(i)

Spec == Init /\ [][Next]_allVars

\* the results view applied to every question list and answer map
InitScore ==
    /\ LifecycleInit
    /\ scQuestions \in ScoreQuestionLists
    /\ scAnswers \in ScoreAnswerMaps
    /\ scResult = NoResult
    /\ TopicsInit
    /\ AssistantInit
    /\ BackendIdle

NextScore == renderResults

SpecScore == InitScore /\ [][NextScore]_allVars

\* the topic coverage state under updateCoveredTopics and ProgressTracker
NextTopics ==
    \/ \E topics \in TopicLists : updateCoveredTopics(topics)
    \/ mountTracker
    \/ \E pdfText \in NotesInputs : handleFetchTopics(pdfText)
    \/ \E topics \in TopicLists : topicsFetchDelivers(topics)
    \/ topicsFetchFails
    \/ \E topic \in Topics : toggleCovered(topic)

SpecTopics == Init /\ [][NextTopics]_allVars

\* the sanitizer applied to every text
InitSanitize ==
    /\ LifecycleInit /\ ScoreIdle /\ TopicsInit /\ AssistantInit
    /\ rawText \in RawTexts
    /\ sanitized = Null
    /\ ServerIdle
    /\ EdgeIdle

NextSanitize == applySanitize

SpecSanitize == InitSanitize /\ [][NextSanitize]_allVars

\* every request to every route
InitServer ==
    /\ LifecycleInit /\ ScoreIdle /\ TopicsInit /\ AssistantInit /\ SanitizerIdle
    /\ EdgeIdle
    /\ reqRoute \in Routes
    /\ reqField \in FieldValues
    /\ handlerPc = "received"
    /\ gatewayCalls = 0
    /\ gatewayOutcome = Null
    /\ responses = <<>>

NextServer ==
    \/ validateRequest
    \/ \E text \in GatewayTexts : gatewayReturns(text)
    \/ gatewayThrows

SpecServer == InitServer /\ [][NextServer]_allVars

\* the edge function under every request, gateway answer and insert outcome
NextEdge ==
    \/ \E v \in FieldValues : serve(v)
    \/ \E outcome \in {"rejected", "notOk", "ok"}, generated \in Generated :
          openAISettles(outcome, generated)
    \/ \E failed \in BOOLEAN : quizInsertSettles(failed)
    \/ \E failed \in BOOLEAN : questionsInsertSettles(failed)

SpecEdge == Init /\ [][NextEdge]_allVars

\* the StudySpark Assistant and the topics it stores
NextAssistant ==
    \/ \E text \in NotesInputs : assistantSetNotes(text)
    \/ generateSummary
    \/ \E data \in SummaryBodies : summaryResolves(data)
    \/ summaryRejects
    \/ assistantGenerateQuiz
    \/ \E data \in QuizBodies : assistantQuizResolves(data)
    \/ assistantQuizRejects
    \/ \E userAnswers \in UserAnswers : submitQuizFeedback(userAnswers)
    \/ \E i \in 1..MaxFeedbackCalls, data \in FeedbackBodies : feedbackResolves(i, data)
    \/ \E i \in 1..MaxFeedbackCalls : feedbackRejects(i)
    \/ \E i \in 1..MaxFeedbackCalls : feedbackResolvesAfterCrash(i)
    \/ \E i \in 1..MaxFeedbackCalls : feedbackRejectsAfterCrash(i)
    \/ reloadAssistant

SpecAssistant == Init /\ [][NextAssistant]_allVars

\* disabled={!selectedAnswers[currentQuestion]}
NextDisabled(answers, cq) == ~(cq \in DOMAIN answers)

\* a click on the Next / Finish button, which is inert while disabled
clickNext ==
    /\ ~NextDisabled(selectedAnswers, currentQuestion)
    /\ nextQuestion

\* the quiz lifecycle when nextQuestion is reached only through its button
NextGated ==
    \/ \E answer \in Keys : selectAnswer(answer)
    \/ clickNext
    \/ prevQuestion
    \/ resetQuiz
    \/ \E value \in NotesInputs : setNotes(value)
    \/ handleFileUpload
    \/ \E i \in 1..MaxUploads, text \in PdfTexts : fileReaderOnload(i, text)
    \/ \E i \in 1..MaxUploads : pdfExtractionFails(i)
    \/ generateQuiz
    \/ \E i \in 1..MaxFetches, response \in Responses : quizFetchDelivers(i, response)
    \/ \E i \in 1..MaxFetches, response \in Responses : quizFetchFails(i, response)
    \/ \E i \in 1..MaxFetches : quizFetchAfterCrash(i)

SpecGated == Init /\ [][NextGated]_allVars

\* a generate-quiz call in flight settles, one way or another
FetchSettles ==
    \E i \in 1..MaxFetches :
      \/ \E response \in Responses :
           quizFetchDelivers(i, response) \/ quizFetchFails(i, response)
      \/ quizFetchAfterCrash(i)

\* a file being read is read to the end, or the extraction fails
UploadSettles ==
    \E i \in 1..MaxUploads :
      \/ \E text \in PdfTexts : fileReaderOnload(i, text)
      \/ pdfExtractionFails(i)

\* the quiz lifecycle with the progress the runtime guarantees: promises and
\* file reads settle; the user is never obliged to act
SpecLive ==
    Init /\ [][Next]_allVars /\ WF_allVars(FetchSettles) /\ WF_allVars(UploadSettles)

----------------------------------------------------------------------------
(* Properties *)

NavigationOps == {"nextQuestion", "prevQuestion"}

\* C1: on a completed session nextQuestion and prevQuestion change neither
\* currentQuestion nor the completed state, and the questions stay as they
\* are.
C1_NavigationAfterCompletionIsNoOp ==
    [][(isCompleted /\ lastOp' \in NavigationOps)
         => /\ currentQuestion' = currentQuestion
            /\ isCompleted'
            /\ quizQuestions' = quizQuestions]_vars

\* C2: isCompleted goes from false to true only in a nextQuestion step
\* taken while currentQuestion is the last index.
C2_CompletedOnlyByAdvanceAtLast ==
    [][(~isCompleted /\ isCompleted')
         => /\ lastOp' = "nextQuestion"
            /\ quizQuestions # Null
            /\ quizQuestions' = quizQuestions
            /\ currentQuestion = Len(questions) - 1]_vars

C2_Witness ==
    /\ lastOp = "nextQuestion"
    /\ isCompleted
    /\ Len(questions) = 2
    /\ currentQuestion = 1

\* C3: nextQuestion on a session in progress adds exactly 1 to
\* currentQuestion and leaves the session in progress when currentQuestion
\* is not the last index, and completes the session with currentQuestion
\* unchanged when it is; with two questions the first advance leads to index
\* 1 in progress and the second one completes.
C3_AdvanceStep ==
    [][(lastOp' = "nextQuestion" /\ ~isCompleted)
         => /\ IF currentQuestion # Len(questions) - 1
                 THEN currentQuestion' = currentQuestion + 1 /\ ~isCompleted'
                 ELSE currentQuestion' = currentQuestion /\ isCompleted'
            /\ (Len(questions) = 2 /\ currentQuestion = 0)
                 => (currentQuestion' = 1 /\ ~isCompleted')
            /\ (Len(questions) = 2 /\ currentQuestion = 1) => isCompleted']_vars

C3_Witness ==
    /\ lastOp = "nextQuestion"
    /\ quizQuestions # Null
    /\ Len(questions) = 2
    /\ currentQuestion = 1
    /\ ~isCompleted

\* C4: whenever there is a session, 0 <= currentQuestion <=
\* questions.length - 1.
C4_CursorInRange ==
    quizQuestions # Null
      => (0 <= currentQuestion /\ currentQuestion <= Len(questions) - 1)

\* C5: selectAnswer(key) changes nothing on a completed session; on a
\* session in progress it sets selectedAnswers[currentQuestion] to key and
\* leaves the other answers, currentQuestion and the completed flag alone.
C5_SelectAnswerFrame ==
    [][\A key \in Keys :
         selectAnswer(key)
           => /\ currentQuestion' = currentQuestion
              /\ isCompleted' = isCompleted
              /\ quizQuestions' = quizQuestions
              /\ IF isCompleted
                   THEN selectedAnswers' = selectedAnswers
                   ELSE /\ DOMAIN selectedAnswers'
                             = DOMAIN selectedAnswers \cup {currentQuestion}
                        /\ selectedAnswers'[currentQuestion] = key
                        /\ \A i \in DOMAIN selectedAnswers \ {currentQuestion} :
                             selectedAnswers'[i] = selectedAnswers[i]]_vars

C5_Witness ==
    /\ lastOp = "selectAnswer"
    /\ ~isCompleted
    /\ currentQuestion = 1
    /\ DOMAIN selectedAnswers = {0, 1}
    /\ selectedAnswers[0] # selectedAnswers[1]

\* C6: every session has at least one question.
C6_SessionHasQuestion == quizQuestions # Null => Len(questions) >= 1

\* C7: while a session lasts, its questions are not replaced with the
\* cursor and the answers of the earlier question set kept.
C7_QuestionsFixedUntilReset ==
    [][(quizQuestions # Null /\ quizQuestions' # Null
          /\ quizQuestions' # quizQuestions)
         => (currentQuestion' = 0 /\ selectedAnswers' = EmptyAnswers)]_vars

\* C8: resetQuiz leaves no questions (Idle), and a session that starts
\* from Idle starts with currentQuestion = 0, no selected answers and
\* isCompleted = false.
C8_ResetThenFreshStart ==
    [][/\ lastOp' = "resetQuiz" => quizQuestions' = Null
       /\ (quizQuestions = Null /\ quizQuestions' # Null)
            => /\ currentQuestion' = 0
               /\ selectedAnswers' = EmptyAnswers
               /\ ~isCompleted']_vars

C8_Witness ==
    /\ lastOp = "resetQuiz"
    /\ quizQuestions = Null
    /\ fetches # <<>>

\* C9: a response to a call that is stale (its session was reset, or a newer
\* call was issued after it) neither starts a session nor alters the
\* current one.
C9_StaleResponseDiscarded ==
    [][\A i \in 1..MaxFetches, response \in Responses :
         (i \in DOMAIN fetches /\ fetches[i].stale
            /\ (quizFetchDelivers(i, response) \/ quizFetchFails(i, response)))
           => UNCHANGED <<quizQuestions, currentQuestion, selectedAnswers,
                          showResults, isCompleted>>]_vars

\* C10: at most one generate-quiz call is in flight.
C10_OneFetchInFlight == Len(fetches) <= 1

CorrectIndices(qs, answers) ==
    {i \in 0..(Len(qs) - 1) :
       i \in DOMAIN answers /\ answers[i] = qs[i + 1].correct_answer}

\* C11: the score is the number of indices below questions.length whose
\* answer is present and equal to correct_answer; it equals the number of
\* questions the results view marks correct and lies in
\* 0..questions.length; answers {0: A, 1: X} against A, B, C score 1.
C11_ScoreCountsCorrectAnswers ==
    scResult.shown
      => /\ scResult.score = Cardinality(CorrectIndices(scQuestions, scAnswers))
         /\ scResult.score
              = Cardinality({i \in DOMAIN scResult.isCorrect : scResult.isCorrect[i]})
         /\ \A i \in DOMAIN scResult.isCorrect :
              (i - 1) \notin DOMAIN scAnswers => ~scResult.isCorrect[i]
         /\ 0 <= scResult.score /\ scResult.score <= Len(scQuestions)
         /\ (scQuestions = <<Q1, Q2, Q3>> /\ scAnswers = (0 :> "A" @@ 1 :> "X"))
              => scResult.score = 1

C11_Witness ==
    /\ scResult.shown
    /\ scQuestions = <<Q1, Q2, Q3>>
    /\ scAnswers = (0 :> "A" @@ 1 :> "X")
    /\ scResult.score = 1
    /\ scResult.isCorrect = <<TRUE, FALSE, FALSE>>

----------------------------------------------------------------------------
(* Topic coverage properties, checked under SpecTopics *)

Range(list) == {list[i] : i \in DOMAIN list}

isCovered(coverage, topic) ==
    topic \in DOMAIN coverage.covered /\ coverage.covered[topic]

OnlyAppends(before, after, newTopics) ==
    /\ \A i \in DOMAIN before.topics :
         i \in DOMAIN after.topics /\ after.topics[i] = before.topics[i]
    /\ \A t \in Range(newTopics) \ Range(before.topics) :
         Cardinality({i \in DOMAIN after.topics : after.topics[i] = t}) = 1
    /\ Len(after.topics) =
         Len(before.topics) + Cardinality(Range(newTopics) \ Range(before.topics))
    /\ \A t \in Range(newTopics) : isCovered(after, t)
    /\ \A t \in Topics : isCovered(before, t) => isCovered(after, t)

\* C15: updateCoveredTopics only appends: the topics stored before the call
\* keep their positions, each new topic not yet present is appended exactly
\* once, the list never gets shorter, every new topic ends covered, and no
\* covered topic is uncovered.
C15_MergeOnlyAppends ==
    [][\A newTopics \in TopicLists :
         updateCoveredTopics(newTopics) =>
           OnlyAppends(parsedOrEmpty(storedTopics), parsedOrEmpty(storedTopics'),
                       newTopics)]_allVars

\* a merge has run on a stored state that held an uncovered topic
C15_Witness ==
    /\ tpOp = "updateCoveredTopics"
    /\ storedTopics # Null
    /\ Len(storedTopics[1].topics) = MaxTopics
    /\ \E t \in Range(storedTopics[1].topics) : ~isCovered(storedTopics[1], t)
    /\ \E t \in Range(storedTopics[1].topics) : isCovered(storedTopics[1], t)

KeysInTopics(coverage) == DOMAIN coverage.covered \subseteq Range(coverage.topics)

\* the operations that replace the topic list on purpose: a delivered
\* list-topics response ("reset covered state for new topics") and a reload
TopicResets == {"topicsFetchDelivers", "mountTracker"}

\* C16: in every reachable topic coverage state every key of covered is a
\* member of topics, and no step other than an explicit reset removes a topic,
\* from the stored state or from the tracker's state.
C16_KeysInTopicsAndAppendOnly ==
    /\ [](/\ KeysInTopics(parsedOrEmpty(storedTopics))
          /\ KeysInTopics(Coverage(ptTopics, ptCovered)))
    /\ [][tpOp' \notin TopicResets =>
            /\ Range(parsedOrEmpty(storedTopics).topics)
                 \subseteq Range(parsedOrEmpty(storedTopics').topics)
            /\ Range(ptTopics) \subseteq Range(ptTopics')]_allVars

\* C17: once a topic fetch or a toggleCovered has settled, the stored value
\* (an absent item read as the empty state) equals the tracker's
\* {topics, covered}, also when the new list is empty.
C17_PersistedAfterMutation ==
    [][tpOp' \in {"topicsFetchDelivers", "toggleCovered"} =>
         parsedOrEmpty(storedTopics') = Coverage(ptTopics', ptCovered')]_allVars

----------------------------------------------------------------------------
(* StudySpark Assistant properties, checked under SpecAssistant *)

\* the gateway's count of correct answers or of questions is not what
\* calculateScore gives for the questions and answers of the call
scoreDiffers(score, call) ==
    \/ score.correct # calculateScore(call.quiz, call.userAnswers)
    \/ score.total # Len(call.quiz)

\* C13: a feedback response whose score differs from the locally computed
\* one is not stored as the quiz result unless it is flagged.
C13_ScoreMismatchFlagged ==
    [][\A i \in 1..MaxFeedbackCalls, data \in FeedbackBodies :
         (/\ feedbackResolves(i, data)
          /\ data.score # Null
          /\ scoreDiffers(data.score[1], feedbackCalls[i]))
         => (quizFeedback' # Some(data) \/ toast'.variant = "destructive")]_allVars

\* a summary or generate-quiz request settles as a failure
SummaryOrQuizFails ==
    \/ \E data \in SummaryBodies : data.status # 200 /\ summaryResolves(data)
    \/ summaryRejects
    \/ \E data \in QuizBodies : data.status # 200 /\ assistantQuizResolves(data)
    \/ assistantQuizRejects

\* a quiz-feedback request settles as a failure
FeedbackFails ==
    \/ \E i \in 1..MaxFeedbackCalls, data \in FeedbackBodies :
         (data.status # 200 \/ data.score = Null) /\ feedbackResolves(i, data)
    \/ \E i \in 1..MaxFeedbackCalls : feedbackRejects(i)

\* C18: a failed summary or generate-quiz request leaves the notes, the
\* summary, the quiz and the feedback as they were.
C18_FailurePreservesState ==
    [][SummaryOrQuizFails =>
         UNCHANGED <<assistantNotes, summary, assistantQuiz, quizFeedback>>]_allVars

\* C19: a failed quiz-feedback call leaves the stored topics and the stored
\* feedback unchanged.
C19_FailedFeedbackChangesNothing ==
    [][FeedbackFails => UNCHANGED <<storedTopics, quizFeedback>>]_allVars

\* C20: every failed summary, generate-quiz or quiz-feedback request raises a
\* failure notification.
C20_FailureNotified ==
    [][(SummaryOrQuizFails \/ FeedbackFails) => toast'.variant = "destructive"]_allVars

----------------------------------------------------------------------------
(* Topic coverage after a completed session, checked under SpecLive *)

\* every topic of the questions is in the stored topics and covered
TopicsCovered(qs) ==
    \A t \in Range(topicsOf(qs)) :
      /\ includes(parsedOrEmpty(storedTopics).topics, t)
      /\ isCovered(parsedOrEmpty(storedTopics), t)

\* the session over qs has completed
SessionCompleted(qs) ==
    Mounted /\ ~crashed /\ questions = qs /\ isCompleted /\ showResults

\* C14: after a quiz session completes, the stored topic coverage eventually
\* has every topic of the completed quiz's questions, covered.
C14_CompletedQuizCoversTopics ==
    \A qs \in QuizSets : SessionCompleted(qs) ~> TopicsCovered(qs)

----------------------------------------------------------------------------
(* Answers recorded behind the cursor, checked under SpecGated *)

\* C26: with nextQuestion reached only while its button is enabled, every
\* index below currentQuestion has a recorded answer, and a completed session
\* has a recorded answer for every question index.
C26_AnsweredBeforeAdvancing ==
    Mounted =>
      /\ \A i \in 0..(currentQuestion - 1) : i \in DOMAIN selectedAnswers
      /\ isCompleted => \A i \in 0..(Len(questions) - 1) : i \in DOMAIN selectedAnswers

----------------------------------------------------------------------------
(* The busy flag, checked under SpecLive *)

\* C27: the isGenerating flag raised by an upload or a generation request
\* eventually returns to false (or the QuizGenerator showing it is gone).
C27_GeneratingEventuallyEnds ==
    (GeneratorMounted /\ isGenerating) ~> (~isGenerating \/ ~GeneratorMounted)

----------------------------------------------------------------------------
(* The shared StudySpark-Topics key, checked under SpecTopics *)

\* C28: a write of the tracker after one of its own changes removes no topic
\* and no covered mark from the stored state, the toggled topic aside: what
\* updateCoveredTopics stored meanwhile is kept.
C28_TrackerWriteKeepsMergedTopics ==
    [][\A topic \in Topics :
         toggleCovered(topic) =>
           \A t \in Topics \ {topic} :
             /\ includes(parsedOrEmpty(storedTopics).topics, t)
                  => includes(parsedOrEmpty(storedTopics').topics, t)
             /\ isCovered(parsedOrEmpty(storedTopics), t)
                  => isCovered(parsedOrEmpty(storedTopics'), t)]_allVars

\* C29: the progress the tracker shows is a percentage between 0 and 100 and
\* the number of covered topics never exceeds the number of topics.
C29_ProgressInRange ==
    /\ progress(ptTopics, ptCovered) \in 0..100
    /\ coveredCount(ptCovered) <= Len(ptTopics)

\* the tracker was restored from storage with a topic listed twice and covered
C29_Witness ==
    /\ tpOp = "mountTracker"
    /\ Len(ptTopics) = MaxTopics
    /\ coveredCount(ptCovered) = 1
    /\ progress(ptTopics, ptCovered) \in 1..99

----------------------------------------------------------------------------
(* Recovery of notes and summary across a reload, checked under SpecAssistant *)

\* C25: a reload restores the notes and the summary the component held just
\* before it, also when the summary had become empty.
C25_ReloadRestoresLatest ==
    [][reloadAssistant =>
         /\ assistantNotes' = assistantNotes
         /\ summary' = summary]_allVars

----------------------------------------------------------------------------
(* The sanitizer, checked under SpecSanitize *)

\* what the sanitizer is to return: without a leading fence the trimmed text;
\* with one, the text without the opening fence and its json tag, if any,
\* without one trailing fence, trimmed
fenceStripped(raw) ==
    LET t == trim(raw)
        afterFence == Tail(t)
        afterTag == IF startsWith(afterFence, "json") THEN Tail(afterFence) ELSE afterFence
    IN  IF startsWith(t, Fence) THEN trim(stripClosing(afterTag)) ELSE t

\* C24: for every raw text the sanitizer removes a leading fence, tagged json
\* or untagged, and one trailing fence and trims; a text without a leading
\* fence is only trimmed.
C24_SanitizerStripsFences ==
    sanitized # Null => sanitized[1] = fenceStripped(rawText)

----------------------------------------------------------------------------
(* The Express routes, checked under SpecServer *)

\* the required string field of the route is missing or empty (for
\* generate-quiz: missing, no string, or empty after trim)
RequiredStringMissing(route, v) ==
    CASE route = "generate-quiz" -> v.type # "string" \/ trim(v.text) = <<>>
      [] route \in {"summary", "list-topics", "chatbot"} -> v = Undefined \/ v = Str(<<>>)
      [] route = "quiz-feedback" -> FALSE

\* C21: a request whose required string field is missing or empty is answered
\* with 400 and the gateway is not called; generate-quiz answers
\* {error: "Notes content is required."}.
C21_MissingFieldAnswers400 ==
    (handlerPc # "received" /\ RequiredStringMissing(reqRoute, reqField)) =>
      /\ gatewayCalls = 0
      /\ Len(responses) = 1
      /\ responses[1].status = 400
      /\ reqRoute = "generate-quiz" =>
           responses[1] = ErrorResponse(400, "Notes content is required.")

\* the chatbot route answered an empty message
C21_Witness ==
    /\ handlerPc = "responded"
    /\ reqRoute = "chatbot"
    /\ reqField = Str(<<>>)
    /\ responses = <<ErrorResponse(400, "Message is required.")>>

\* the gateway call failed, or its text does not parse as JSON where the
\* route parses it
GatewayOrParseFailure ==
    /\ gatewayOutcome # Null
    /\ \/ gatewayOutcome[1].threw
       \/ reqRoute \in JsonRoutes /\ ~parses(sanitize(gatewayOutcome[1].text))

\* C22: a gateway failure or a parse failure yields exactly one response,
\* with status 500 and an error string; no request is answered twice.
C22_FailureAnswers500Once ==
    /\ Len(responses) <= 1
    /\ gatewayOutcome # Null => Len(responses) = 1
    /\ GatewayOrParseFailure =>
         /\ responses[1].status = 500
         /\ responses[1].error # Null
         /\ responses[1].data = Null

\* list-topics answered a text that is no JSON
C22_Witness ==
    /\ reqRoute = "list-topics"
    /\ gatewayOutcome = Some([threw |-> FALSE, text |-> <<"x">>])
    /\ responses = <<ErrorResponse(500, "Failed to extract topics.")>>

\* C23: every 200 response of generate-quiz carries a question set whose
\* correct_answer is a key of its options.
C23_SuccessHasQuestions ==
    (reqRoute = "generate-quiz" /\ Len(responses) = 1 /\ responses[1].status = 200) =>
      responses[1].data = Some(<<"{questions}">>)

\* the quiz row of the current request is in quizzes and no row of questions
\* refers to it
OrphanQuiz ==
    /\ efQuizId # Null
    /\ efQuizId[1] \in quizzesTable
    /\ efQuizId[1] \notin questionsTable

\* C30: the edge function never ends a request with an error response while
\* the quiz row it inserted has no question rows, and it answers 200 only
\* after both inserts succeeded for a non-empty array of questions
C30_NoOrphanQuizOnError ==
    (efPc = "responded" /\ efResponse # Null) =>
        /\ efResponse[1].status # 200 => ~OrphanQuiz
        /\ efResponse[1].status = 200 =>
              /\ efQuizId # Null
              /\ efQuizId[1] \in quizzesTable
              /\ efQuizId[1] \in questionsTable
              /\ efQuestions = "questions"

====
